---- MODULE Spec2Model ----
(***************************************************************************)
(* Model of the analytics middleware of src/index.js: the anonymizer       *)
(* (makeAnonymizer), the in-memory queue, the batch inserter (drain), the  *)
(* interval timer and the response "finish" handler that captures events.  *)
(*                                                                         *)
(* Strings are sequences of one-character strings, so that split, slice    *)
(* and join are computed the way the code computes them.  JavaScript null  *)
(* is the value Null, which is no string of the alphabet.                  *)
(***************************************************************************)
EXTENDS Integers, Sequences, FiniteSets, TLC

VARIABLES
    batchSize,        \* const batchSize (index.js:64)
    optsAnonymizeIp,  \* opts.anonymizeIp as the caller passed it ("unset" = absent)
    hashSalt,         \* opts.hashSalt || "" (index.js:68)
    queue,            \* const queue = [] (index.js:87)
    draining,         \* let draining (index.js:88)
    inflight,         \* batch inserts handed to pool.query and not yet settled
    store,            \* rows of the events table, in insertion order
    dropped,          \* records of batches whose insert was rejected
    errors,           \* number of "[analytics] batch insert failed" lines logged
    nextId,           \* identity of the next record object created by the handler
    suppressed,       \* ids waiting in the queue when a drain() call returned on `draining`
    anonIn,           \* input of the anonymizer under test
    anonMode,         \* mode whose anonymizer was applied to anonIn ("unset" = not yet)
    anonOut,          \* result of that application
    poolEnded,        \* stop() has run pool.end() (index.js:303)
    closedInsert,     \* the outstanding insert was issued on an ended pool
    schema,           \* the startup pool.query(tableSql(table)): "pending", "done", "failed"
    tableExists,      \* the events table is there in the store
    reqPhase,         \* the host request in hand: "idle", or "passed" the middleware
    listener,         \* its res.on("finish") listener is registered (index.js:134)
    nextCalls,        \* calls of next() made for it by the middleware
    lastFinish,       \* how its finish listener ended: "none", "unsampled", "caught", "pushed"
    dashEndpoint,     \* the dashboard request in hand: "none" or its endpoint
    dashArgs,         \* the parameter array it passed to pool.query: [bucket, window] for traffic
    dashQ,            \* its store queries, each "pending", "ok" with its rows, or "failed"
    dashSent,         \* responses sent for it (res.json calls)
    dashResp          \* the response sent for it: status code and JSON body

vars == <<batchSize, optsAnonymizeIp, hashSalt, queue, draining, inflight, store,
          dropped, errors, nextId, suppressed, anonIn, anonMode, anonOut,
          poolEnded, closedInsert, schema, tableExists,
          reqPhase, listener, nextCalls, lastFinish,
          dashEndpoint, dashArgs, dashQ, dashSent, dashResp>>

pipeVars == <<queue, draining, inflight, store, dropped, errors, nextId, suppressed>>
optVars == <<batchSize, optsAnonymizeIp, hashSalt>>
anonVars == <<anonIn, anonMode, anonOut>>
lifeVars == <<poolEnded, schema, tableExists>>
reqVars == <<reqPhase, listener, nextCalls, lastFinish>>
dashVars == <<dashEndpoint, dashArgs, dashQ, dashSent, dashResp>>
sideVars == <<reqVars, dashVars>>

----------------------------------------------------------------------------
(* Bounds *)

MaxRecords == 3     \* records captured in one behaviour
MaxBatch == 2       \* largest explicitly configured opts.batch
MaxIpLen == 6       \* longest generated anonymizer input

(* Program constants *)

DefaultBatch == 500 \* Number(opts.batch || 500)
HashLen == 16       \* .slice(0, 16)

----------------------------------------------------------------------------
(* Strings *)

\* No response sent yet.
NoResponse == [code |-> 0, body |-> [none |-> TRUE]]

Null == <<"NULL">>
Unset == <<"UNSET">>

Alphabet == {"1", "2", ".", ":"}

RECURSIVE StringsUpTo(_)
StringsUpTo(n) ==
    IF n = 0 THEN {<<>>}
    ELSE LET shorter == StringsUpTo(n - 1)
         IN  shorter \cup {Append(s, c) : s \in {t \in shorter : Len(t) = n - 1}, c \in Alphabet}

Min(a, b) == IF a < b THEN a ELSE b

\* s.includes(c)
Includes(s, c) == \E i \in 1..Len(s) : s[i] = c

\* s.split(c): the pieces between the occurrences of c, empty pieces kept.
RECURSIVE SplitFrom(_, _, _, _)
SplitFrom(s, c, i, cur) ==
    IF i > Len(s) THEN <<cur>>
    ELSE IF s[i] = c THEN <<cur>> \o SplitFrom(s, c, i + 1, <<>>)
    ELSE SplitFrom(s, c, i + 1, Append(cur, s[i]))

Split(s, c) == SplitFrom(s, c, 1, <<>>)

\* parts.slice(0, n)
SliceFront(parts, n) == SubSeq(parts, 1, Min(n, Len(parts)))

\* parts.join(c); [].join(c) is ""
RECURSIVE Join(_, _)
Join(parts, c) ==
    IF Len(parts) = 0 THEN <<>>
    ELSE IF Len(parts) = 1 THEN parts[1]
    ELSE parts[1] \o <<c>> \o Join(Tail(parts), c)

----------------------------------------------------------------------------
(* makeAnonymizer *)

\* mode "none": (ip) => ip || null
NoneAnonymize(ip) == IF ip = <<>> THEN Null ELSE ip

\* Stand-in for sha256: a digest of fixed length over the hex digits, a
\* function of the whole input.
HexDigits == <<"0", "1", "2", "3", "4", "5", "6", "7",
               "8", "9", "a", "b", "c", "d", "e", "f">>

CharCode(c) ==
    CASE c = "1" -> 49 [] c = "2" -> 50 [] c = "." -> 46 [] c = ":" -> 58
      [] c = "s" -> 115 [] OTHER -> 0

RECURSIVE Checksum(_)
Checksum(s) == IF s = <<>> THEN 7 ELSE (31 * Checksum(Tail(s)) + CharCode(Head(s))) % 65536

DigestHex(s) ==
    [j \in 1..64 |-> HexDigits[((Checksum(s) * j + Len(s) + j * j) % 16) + 1]]

\* mode "hash": sha256(hashSalt + ip).digest("hex").slice(0, 16), or null
HashAnonymize(salt, ip) ==
    IF ip = <<>> THEN Null ELSE SubSeq(DigestHex(salt \o ip), 1, HashLen)

\* default mode ("cidr" and every other value)
CidrAnonymizeWrongWidth(ip) ==
    IF ip = <<>> THEN Null
    ELSE IF Includes(ip, ":") THEN Join(SliceFront(Split(ip, ":"), 4), ":") \o <<":", ":">>
    ELSE ip

CidrAnonymize(ip) ==
    IF ip = <<>> THEN Null
    ELSE IF Includes(ip, ":") THEN Join(SliceFront(Split(ip, ":"), 3), ":") \o <<":", ":">>
    ELSE LET p == Split(ip, ".")
         IN  IF Len(p) # 4 THEN ip
             ELSE Join([p EXCEPT ![4] = <<"0">>], ".")

makeAnonymizer(mode, salt, ip) ==
    IF mode = "none" THEN NoneAnonymize(ip)
    ELSE IF mode = "hash" THEN HashAnonymize(salt, ip)
    ELSE CidrAnonymize(ip)

\* opts.anonymizeIp || "cidr"
AnonymizeMode(opt) == IF opt = "unset" THEN "cidr" ELSE opt

\* ip_full: opts.anonymizeIp === "none" ? ip || null : null
IpFullAlways(opt, ip) == IF ip = <<>> THEN Null ELSE ip

IpFull(opt, ip) == IF opt = "none" THEN (IF ip = <<>> THEN Null ELSE ip) ELSE Null

\* The object literal pushed by the handler.  id stands for the identity of
\* the object (and its occurred_at); ip is the handler's local `ip`; status is
\* res.statusCode.
MakeRecord(id, ip, status) ==
    [id |-> id,
     ip |-> ip,
     status |-> status,
     ip_cidr |-> makeAnonymizer(AnonymizeMode(optsAnonymizeIp), hashSalt, ip),
     ip_full |-> IpFull(optsAnonymizeIp, ip)]

----------------------------------------------------------------------------
(* Inputs *)

Ipv4Sample == <<"1", ".", "2", ".", "1", ".", "2">>
Ipv6Sample == <<"1", ":", "2", ":", "1", ":", "2", ":", ":", "1">>
MappedSample == <<":", ":", "2", ":", "1", ".", "2", ".", "1", ".", "2">>
LoopbackSample == <<":", ":", "1">>
FivePartSample == <<"1", ".", "2", ".", "1", ".", "2", ".", "1">>

\* Client addresses seen by the handler (the empty string when none is known).
ClientIps == {<<>>, Ipv4Sample}

\* Inputs of the anonymizer under test.
IpInputs ==
    StringsUpTo(MaxIpLen)
        \cup {Ipv4Sample, Ipv6Sample, MappedSample, LoopbackSample, FivePartSample}

\* res.statusCode of the host's responses
StatusOk == 200
StatusError == 500
Statuses == {StatusOk, StatusError}

PolicyOptions == {"unset", "none", "cidr", "hash"}
Salts == {<<>>, <<"s">>}

\* Number(opts.batch || 500): 0 stands for an absent opts.batch
BatchSizeOf(batch) == IF batch = 0 THEN DefaultBatch ELSE batch

----------------------------------------------------------------------------
(* drain() up to its await *)

\* if (draining || queue.length === 0) return;
DrainIgnoresFlag(q, d) == Len(q) = 0
DrainIgnoresEmpty(q, d) == d

DrainReturnsEarly(q, d) == d \/ Len(q) = 0

\* queue.splice(0, batchSize): the removed items, and what stays in the queue
SpliceItemsAll(q, n) == q

SpliceItemsReversed(q, n) ==
    LET k == Min(n, Len(q)) IN [i \in 1..k |-> q[k + 1 - i]]

SpliceItems(q, n) == SubSeq(q, 1, Min(n, Len(q)))

SpliceRestCopy(q, n) == q

SpliceRest(q, n) == SubSeq(q, Min(n, Len(q)) + 1, Len(q))

SeqIds(q) == {q[i].id : i \in 1..Len(q)}

\* A call of drain() on queue contents q: the synchronous part, through
\* pool.query(sql, params).
DrainCall(q) ==
    IF DrainReturnsEarly(q, draining)
    THEN /\ queue' = q
         /\ suppressed' = IF draining THEN suppressed \cup SeqIds(q) ELSE suppressed
         /\ UNCHANGED <<draining, inflight, closedInsert>>
    ELSE /\ draining' = TRUE
         /\ inflight' = Append(inflight, SpliceItems(q, batchSize))
         /\ closedInsert' = poolEnded
         /\ queue' = SpliceRest(q, batchSize)
         /\ UNCHANGED suppressed

----------------------------------------------------------------------------
(* Actions *)

\* The pipeline once the table is ensured: the startup statement has returned
\* and stop() is not called.
Init ==
    /\ batchSize \in {BatchSizeOf(b) : b \in 0..MaxBatch}
    /\ optsAnonymizeIp \in PolicyOptions
    /\ hashSalt \in Salts
    /\ queue = <<>>
    /\ draining = FALSE
    /\ inflight = <<>>
    /\ store = <<>>
    /\ dropped = {}
    /\ errors = 0
    /\ nextId = 1
    /\ suppressed = {}
    /\ anonIn = <<>>
    /\ anonMode = "unset"
    /\ anonOut = Unset
    /\ poolEnded = FALSE
    /\ closedInsert = FALSE
    /\ schema = "done"
    /\ tableExists = TRUE
    /\ reqPhase = "idle"
    /\ listener = FALSE
    /\ nextCalls = 0
    /\ lastFinish = "none"
    /\ dashEndpoint = "none"
    /\ dashArgs = <<>>
    /\ dashQ = <<>>
    /\ dashSent = 0
    /\ dashResp = NoResponse

\* setInterval(drain, intervalMs)
TimerTickNoDrain == UNCHANGED vars

TimerTick ==
    /\ DrainCall(queue)
    /\ UNCHANGED <<store, dropped, errors, nextId>>
    /\ UNCHANGED <<optVars, anonVars, lifeVars, sideVars>>

\* queue.push(e)
PushFront(q, e) == <<e>> \o q

Push(q, e) == Append(q, e)

\* if (queue.length >= batchSize) drain();
AtThresholdStrict(q) == Len(q) > batchSize

AtThreshold(q) == Len(q) >= batchSize

\* res.on("finish", ...): sample, build the record, push, drain at the threshold.
\* A throwing hook (sample, getUserId, normalizeRoute) is caught by the empty
\* catch block and nothing is pushed.
FinishWith(ip, status, sampled, hookThrows) ==
    IF ~sampled \/ hookThrows
    THEN UNCHANGED <<optVars, pipeVars, anonVars, lifeVars, closedInsert>>
    ELSE /\ nextId' = nextId + 1
         /\ LET q == Push(queue, MakeRecord(nextId, ip, status))
            IN  IF AtThreshold(q)
                THEN DrainCall(q)
                ELSE queue' = q /\ UNCHANGED <<draining, inflight, suppressed, closedInsert>>
         /\ UNCHANGED <<store, dropped, errors>>
         /\ UNCHANGED <<optVars, anonVars, lifeVars>>

\* The listener of some request of the host, whichever it is.  The pipeline
\* never reads the status of a record, so its requests all answer StatusOk.
Finish ==
    /\ nextId <= MaxRecords
    /\ \E ip \in ClientIps, sampled \in BOOLEAN, hookThrows \in BOOLEAN :
          FinishWith(ip, StatusOk, sampled, hookThrows)
    /\ UNCHANGED sideVars

\* await pool.query(sql, params) resolves; finally { draining = false }.  The store
\* accepts the rows only if the table is there and the pool was open at the call.
InsertResolveRedrain ==
    /\ inflight # <<>>
    /\ store' = store \o Head(inflight)
    /\ IF queue = <<>>
       THEN inflight' = Tail(inflight) /\ draining' = FALSE /\ UNCHANGED <<queue, closedInsert>>
       ELSE /\ inflight' = Append(Tail(inflight), SpliceItems(queue, batchSize))
            /\ queue' = SpliceRest(queue, batchSize)
            /\ draining' = TRUE
            /\ closedInsert' = poolEnded
    /\ UNCHANGED <<dropped, errors, nextId, suppressed>>
    /\ UNCHANGED <<optVars, anonVars, lifeVars, sideVars>>

InsertResolve ==
    /\ inflight # <<>>
    /\ tableExists
    /\ ~closedInsert
    /\ store' = store \o Head(inflight)
    /\ inflight' = Tail(inflight)
    /\ draining' = FALSE
    /\ UNCHANGED <<queue, dropped, errors, nextId, suppressed>>
    /\ UNCHANGED <<optVars, anonVars, lifeVars, closedInsert, sideVars>>

\* await pool.query(sql, params) rejects; catch logs, finally { draining = false }
InsertRejectRequeue ==
    /\ inflight # <<>>
    /\ queue' = Head(inflight) \o queue
    /\ errors' = errors + 1
    /\ inflight' = Tail(inflight)
    /\ draining' = FALSE
    /\ UNCHANGED <<store, dropped, nextId, suppressed>>
    /\ UNCHANGED <<optVars, anonVars, lifeVars, closedInsert, sideVars>>

InsertRejectDropsQueue ==
    /\ inflight # <<>>
    /\ dropped' = dropped \cup {Head(inflight)[i] : i \in 1..Len(Head(inflight))}
                          \cup {queue[i] : i \in 1..Len(queue)}
    /\ queue' = <<>>
    /\ errors' = errors + 1
    /\ inflight' = Tail(inflight)
    /\ draining' = FALSE
    /\ UNCHANGED <<store, nextId, suppressed>>
    /\ UNCHANGED <<optVars, anonVars, lifeVars, closedInsert, sideVars>>

InsertRejectNoFinally ==
    /\ inflight # <<>>
    /\ dropped' = dropped \cup {Head(inflight)[i] : i \in 1..Len(Head(inflight))}
    /\ errors' = errors + 1
    /\ inflight' = Tail(inflight)
    /\ UNCHANGED <<queue, draining, store, nextId, suppressed>>
    /\ UNCHANGED <<optVars, anonVars, lifeVars, closedInsert, sideVars>>

InsertReject ==
    /\ inflight # <<>>
    /\ dropped' = dropped \cup {Head(inflight)[i] : i \in 1..Len(Head(inflight))}
    /\ errors' = errors + 1
    /\ inflight' = Tail(inflight)
    /\ draining' = FALSE
    /\ UNCHANGED <<queue, store, nextId, suppressed>>
    /\ UNCHANGED <<optVars, anonVars, lifeVars, closedInsert, sideVars>>

InsertSettle == InsertResolve \/ InsertReject

Next == TimerTick \/ Finish \/ InsertResolve \/ InsertReject

Spec == Init /\ [][Next]_vars

\* The timer keeps ticking and every issued insert settles.
FairSpec == Spec /\ WF_vars(TimerTick) /\ WF_vars(InsertSettle)

----------------------------------------------------------------------------
(* Startup and shutdown: the pipeline from the call of enableAnalytics, with *)
(* the schema statement still out and stop() available.                      *)

LifeInit ==
    /\ batchSize \in {BatchSizeOf(b) : b \in 0..MaxBatch}
    /\ optsAnonymizeIp = "unset"
    /\ hashSalt = <<>>
    /\ queue = <<>>
    /\ draining = FALSE
    /\ inflight = <<>>
    /\ store = <<>>
    /\ dropped = {}
    /\ errors = 0
    /\ nextId = 1
    /\ suppressed = {}
    /\ anonIn = <<>>
    /\ anonMode = "unset"
    /\ anonOut = Unset
    /\ poolEnded = FALSE
    /\ closedInsert = FALSE
    /\ schema = "pending"
    /\ tableExists \in BOOLEAN
    /\ reqPhase = "idle"
    /\ listener = FALSE
    /\ nextCalls = 0
    /\ lastFinish = "none"
    /\ dashEndpoint = "none"
    /\ dashArgs = <<>>
    /\ dashQ = <<>>
    /\ dashSent = 0
    /\ dashResp = NoResponse

\* pool.query(tableSql(table)) resolves: CREATE TABLE IF NOT EXISTS has run
SchemaResolve ==
    /\ schema = "pending"
    /\ schema' = "done"
    /\ tableExists' = TRUE
    /\ UNCHANGED <<poolEnded, closedInsert, optVars, pipeVars, anonVars, sideVars>>

\* pool.query(tableSql(table)) rejects: .catch logs "failed to ensure table"
SchemaReject ==
    /\ schema = "pending"
    /\ schema' = "failed"
    /\ UNCHANGED <<tableExists, poolEnded, closedInsert, optVars, pipeVars, anonVars, sideVars>>

\* stop: async () => { await pool.end(); }
Stop ==
    /\ ~poolEnded
    /\ poolEnded' = TRUE
    /\ UNCHANGED <<schema, tableExists, closedInsert, optVars, pipeVars, anonVars, sideVars>>

LifeNext == Next \/ SchemaResolve \/ SchemaReject \/ Stop

LifeSpec == LifeInit /\ [][LifeNext]_vars

----------------------------------------------------------------------------
(* One host request at a time, followed through the middleware: the call of *)
(* next() and the finish listener with its outcome.                         *)

ReqInit ==
    /\ batchSize \in {BatchSizeOf(b) : b \in 0..MaxBatch}
    /\ optsAnonymizeIp = "unset"
    /\ hashSalt = <<>>
    /\ queue = <<>>
    /\ draining = FALSE
    /\ inflight = <<>>
    /\ store = <<>>
    /\ dropped = {}
    /\ errors = 0
    /\ nextId = 1
    /\ suppressed = {}
    /\ anonIn = <<>>
    /\ anonMode = "unset"
    /\ anonOut = Unset
    /\ poolEnded = FALSE
    /\ closedInsert = FALSE
    /\ schema = "done"
    /\ tableExists = TRUE
    /\ reqPhase = "idle"
    /\ listener = FALSE
    /\ nextCalls = 0
    /\ lastFinish = "none"
    /\ dashEndpoint = "none"
    /\ dashArgs = <<>>
    /\ dashQ = <<>>
    /\ dashSent = 0
    /\ dashResp = NoResponse

\* app.use((req, res, next) => ...): a redacted path goes straight to next();
\* any other request gets the finish listener, then next().
Middleware ==
    /\ reqPhase = "idle"
    /\ nextId <= MaxRecords
    /\ \E redacted \in BOOLEAN :
          /\ listener' = ~redacted
          /\ nextCalls' = 1
    /\ reqPhase' = "passed"
    /\ lastFinish' = "none"
    /\ UNCHANGED <<optVars, pipeVars, anonVars, lifeVars, closedInsert, dashVars>>

\* The response of the request in hand finishes; its listener runs if there is one.
FinishOutcome(sampled, hookThrows) ==
    IF hookThrows THEN "caught" ELSE IF ~sampled THEN "unsampled" ELSE "pushed"

ReqFinish ==
    /\ reqPhase = "passed"
    /\ reqPhase' = "idle"
    /\ UNCHANGED <<listener, nextCalls, dashVars>>
    /\ IF listener
       THEN \E ip \in ClientIps, sampled \in BOOLEAN, hookThrows \in BOOLEAN :
               /\ FinishWith(ip, StatusOk, sampled, hookThrows)
               /\ lastFinish' = FinishOutcome(sampled, hookThrows)
       ELSE UNCHANGED <<lastFinish, optVars, pipeVars, anonVars, lifeVars, closedInsert>>

ReqNext == Middleware \/ ReqFinish \/ TimerTick \/ InsertResolve \/ InsertReject

ReqSpec == ReqInit /\ [][ReqNext]_vars

----------------------------------------------------------------------------
(* The embedded dashboard (opts.dashboard given): one request at a time,    *)
(* its store queries and its response, next to the pipeline that fills the  *)
(* table.  Row contents are computed for the summary's count and status     *)
(* distribution; the latency percentiles and the rows of the other four     *)
(* queries stand as tokens.  Every stored record is younger than the        *)
(* shortest query window.                                                   *)

DashInit ==
    /\ batchSize = MaxBatch
    /\ optsAnonymizeIp = "unset"
    /\ hashSalt = <<>>
    /\ queue = <<>>
    /\ draining = FALSE
    /\ inflight = <<>>
    /\ store = <<>>
    /\ dropped = {}
    /\ errors = 0
    /\ nextId = 1
    /\ suppressed = {}
    /\ anonIn = <<>>
    /\ anonMode = "unset"
    /\ anonOut = Unset
    /\ poolEnded = FALSE
    /\ closedInsert = FALSE
    /\ schema = "done"
    /\ tableExists = TRUE
    /\ reqPhase = "idle"
    /\ listener = FALSE
    /\ nextCalls = 0
    /\ lastFinish = "none"
    /\ dashEndpoint = "none"
    /\ dashArgs = <<>>
    /\ dashQ = <<>>
    /\ dashSent = 0
    /\ dashResp = NoResponse

\* A sampled request of the host finishes with some status code.
DashFinish ==
    /\ nextId <= MaxRecords
    /\ \E status \in Statuses : FinishWith(Ipv4Sample, status, TRUE, FALSE)
    /\ UNCHANGED sideVars

Endpoints == {"summary", "traffic", "top-routes", "top-ips", "recent"}

\* Promise.all of three queries for the summary, one query for the others
QueryCount(endpoint) == IF endpoint = "summary" THEN 3 ELSE 1

\* req.query.bucket and req.query.window as the caller sent them ("" = absent)
BucketInputs == {"", "day", "invalid"}
WindowInputs == {"", "1 hour", "1 hour; DROP TABLE x"}

\* req.query.window || "24 hours", req.query.bucket || "hour"
TrafficArgs(qbucket, qwindow) ==
    [bucket |-> IF qbucket = "" THEN "hour" ELSE qbucket,
     window |-> IF qwindow = "" THEN "24 hours" ELSE qwindow]

PendingQuery == [state |-> "pending", rows |-> <<>>]
FailedQuery == [state |-> "failed", rows |-> <<>>]

NoPendingQuery == \A i \in 1..Len(dashQ) : dashQ[i].state # "pending"

\* dash.get("/api/...", async (req, res) => { ... await pool.query(...) ...
DashRequest ==
    /\ NoPendingQuery
    /\ \E endpoint \in Endpoints :
          /\ dashEndpoint' = endpoint
          /\ dashQ' = [i \in 1..QueryCount(endpoint) |-> PendingQuery]
          /\ IF endpoint = "traffic"
             THEN \E qbucket \in BucketInputs, qwindow \in WindowInputs :
                     dashArgs' = TrafficArgs(qbucket, qwindow)
             ELSE dashArgs' = <<>>
    /\ dashSent' = 0
    /\ dashResp' = NoResponse
    /\ UNCHANGED <<reqVars, optVars, pipeVars, anonVars, lifeVars, closedInsert>>

\* What the store does with date_trunc($1, ...) and ($2)::interval
StoreAcceptsTraffic(args) ==
    /\ args.bucket \in {"hour", "day"}
    /\ args.window \in {"1 hour", "24 hours"}

StatusCount(st) == Cardinality({i \in 1..Len(store) : store[i].status = st})

\* SELECT status, COUNT(*)::int AS c ... GROUP BY status
StatusGroups == {[status |-> st, c |-> StatusCount(st)] : st \in {store[i].status : i \in 1..Len(store)}}

\* ORDER BY c DESC: every arrangement of the groups with counts not increasing
OrderedAscending(groups) ==
    {q \in [1..Cardinality(groups) -> groups] :
        /\ \A i, j \in 1..Cardinality(groups) : i # j => q[i] # q[j]
        /\ \A i, j \in 1..Cardinality(groups) : i < j => q[i].c <= q[j].c}

OrderedByCountDesc(groups) ==
    {q \in [1..Cardinality(groups) -> groups] :
        /\ \A i, j \in 1..Cardinality(groups) : i # j => q[i] # q[j]
        /\ \A i, j \in 1..Cardinality(groups) : i < j => q[i].c >= q[j].c}

\* The rows a resolved query can return, for query i of the endpoint.
QueryRows(endpoint, i) ==
    IF endpoint = "summary" /\ i = 1 THEN {<<[count |-> Len(store)]>>}
    ELSE IF endpoint = "summary" /\ i = 2 THEN OrderedByCountDesc(StatusGroups)
    ELSE IF endpoint = "summary" THEN {<<"latency">>}
    ELSE {<<"rows">>}

\* res.json(...) of the success path
SuccessBody(endpoint, q) ==
    IF endpoint = "summary"
    THEN [total_30d |-> q[1].rows[1].count, statuses |-> q[2].rows, latency |-> q[3].rows[1]]
    ELSE [rows |-> q[1].rows]

\* A query of the request resolves; when it was the last one the handler
\* goes on past its await and sends the JSON.
DashQueryResolve ==
    /\ tableExists
    /\ dashEndpoint = "traffic" => StoreAcceptsTraffic(dashArgs)
    /\ \E i \in 1..Len(dashQ) :
          /\ dashQ[i].state = "pending"
          /\ \E rows \in QueryRows(dashEndpoint, i) :
                LET q == [dashQ EXCEPT ![i] = [state |-> "ok", rows |-> rows]]
                IN  /\ dashQ' = q
                    /\ IF \A k \in 1..Len(q) : q[k].state = "ok"
                       THEN /\ dashSent' = dashSent + 1
                            /\ dashResp' = [code |-> 200, body |-> SuccessBody(dashEndpoint, q)]
                       ELSE UNCHANGED <<dashSent, dashResp>>
    /\ UNCHANGED <<dashEndpoint, dashArgs, reqVars, optVars, pipeVars, anonVars, lifeVars,
                   closedInsert>>

\* A query of the request rejects: the first rejection takes the handler to
\* catch (e) { res.status(500).json({ error: e.message }) }; later ones are
\* ignored by the settled Promise.all.
DashQueryRejectEach ==
    /\ \E i \in 1..Len(dashQ) :
          /\ dashQ[i].state = "pending"
          /\ dashQ' = [dashQ EXCEPT ![i] = FailedQuery]
    /\ dashSent' = dashSent + 1
    /\ dashResp' = [code |-> 500, body |-> [error |-> "message"]]
    /\ UNCHANGED <<dashEndpoint, dashArgs, reqVars, optVars, pipeVars, anonVars, lifeVars,
                   closedInsert>>

DashQueryReject ==
    /\ \E i \in 1..Len(dashQ) :
          /\ dashQ[i].state = "pending"
          /\ dashQ' = [dashQ EXCEPT ![i] = FailedQuery]
    /\ IF \A k \in 1..Len(dashQ) : dashQ[k].state # "failed"
       THEN /\ dashSent' = dashSent + 1
            /\ dashResp' = [code |-> 500, body |-> [error |-> "message"]]
       ELSE UNCHANGED <<dashSent, dashResp>>
    /\ UNCHANGED <<dashEndpoint, dashArgs, reqVars, optVars, pipeVars, anonVars, lifeVars,
                   closedInsert>>

DashNext ==
    \/ DashFinish \/ TimerTick \/ InsertResolve \/ InsertReject
    \/ DashRequest \/ DashQueryResolve \/ DashQueryReject

DashSpec == DashInit /\ [][DashNext]_vars

----------------------------------------------------------------------------
(* The anonymizer on its own: one input, one application *)

AnonInit ==
    /\ batchSize = DefaultBatch
    /\ optsAnonymizeIp = "unset"
    /\ hashSalt \in Salts
    /\ queue = <<>>
    /\ draining = FALSE
    /\ inflight = <<>>
    /\ store = <<>>
    /\ dropped = {}
    /\ errors = 0
    /\ nextId = 1
    /\ suppressed = {}
    /\ anonIn \in IpInputs
    /\ anonMode = "unset"
    /\ anonOut = Unset
    /\ poolEnded = FALSE
    /\ closedInsert = FALSE
    /\ schema = "done"
    /\ tableExists = TRUE
    /\ reqPhase = "idle"
    /\ listener = FALSE
    /\ nextCalls = 0
    /\ lastFinish = "none"
    /\ dashEndpoint = "none"
    /\ dashArgs = <<>>
    /\ dashQ = <<>>
    /\ dashSent = 0
    /\ dashResp = NoResponse

Apply(mode) ==
    /\ anonMode = "unset"
    /\ anonMode' = mode
    /\ anonOut' = makeAnonymizer(mode, hashSalt, anonIn)
    /\ UNCHANGED <<anonIn, optVars, pipeVars, lifeVars, closedInsert, sideVars>>

ApplyNone == Apply("none")
ApplyHash == Apply("hash")
ApplyCidr == Apply("cidr")

AnonNext == ApplyNone \/ ApplyHash \/ ApplyCidr

AnonSpec == AnonInit /\ [][AnonNext]_vars

----------------------------------------------------------------------------
(* Vocabulary of the properties *)

Ids == 1..MaxRecords
InflightRecords == UNION {{inflight[b][i] : i \in 1..Len(inflight[b])} : b \in 1..Len(inflight)}
InflightIds == {r.id : r \in InflightRecords}
QueueRecords == {queue[i] : i \in 1..Len(queue)}
StoreRecords == {store[i] : i \in 1..Len(store)}
StoreIds == SeqIds(store)
DroppedIds == {r.id : r \in dropped}

CountIn(q, id) == Cardinality({i \in 1..Len(q) : q[i].id = id})

RECURSIVE CountInBatches(_, _)
CountInBatches(bs, id) ==
    IF bs = <<>> THEN 0 ELSE CountIn(Head(bs), id) + CountInBatches(Tail(bs), id)

\* A step that enqueues a record, one that issues an insert, one in which an
\* insert settles, and one in which it settles by rejection.
Enqueues == nextId' = nextId + 1
IssuesInsert == Len(inflight') > Len(inflight)
Settles == Len(inflight') < Len(inflight)
Rejects == Settles /\ store' = store

----------------------------------------------------------------------------
(* C1: at every moment at most one batch insert is outstanding against the  *)
(* store, whatever the interleaving of ticks, enqueues and settlements.     *)
C1_AtMostOneInsertOutstanding == Len(inflight) <= 1

\* A trigger arrived at a full queue while an insert was outstanding.
C1_Witness ==
    /\ Len(inflight) = 1
    /\ draining
    /\ Len(queue) >= batchSize
    /\ suppressed \cap SeqIds(queue) # {}

(* C2: every captured record is in exactly one of the queue, the in-flight  *)
(* batch, the store and the dropped batches, and occurs there once: no      *)
(* record is in two batches or written twice.                               *)
C2_EachRecordInOnePlace ==
    \A id \in 1..(nextId - 1) :
        CountIn(queue, id) + CountInBatches(inflight, id) + CountIn(store, id)
            + Cardinality({r \in dropped : r.id = id}) = 1

\* Records in three of the places at once, the fourth used before.
C2_Witness ==
    /\ queue # <<>>
    /\ inflight # <<>>
    /\ (store # <<>> \/ dropped # {})

(* C3: a flush that starts with n records queued removes exactly the first  *)
(* min(n, batchSize) of them and issues exactly one insert carrying them;   *)
(* with n = 0 a trigger changes neither queue nor flag and issues nothing.  *)
C3_FlushStep ==
    /\ IssuesInsert =>
          LET batch == inflight'[Len(inflight')]
              before == batch \o queue'
          IN  /\ Len(inflight') = Len(inflight) + 1
              /\ SubSeq(inflight', 1, Len(inflight)) = inflight
              /\ \/ before = queue
                 \/ Enqueues /\ Len(before) = Len(queue) + 1
                             /\ SubSeq(before, 1, Len(queue)) = queue
              /\ Len(batch) = Min(Len(before), batchSize)
              /\ batch # <<>>
    /\ (queue = <<>> /\ ~Enqueues) =>
          /\ queue' = <<>>
          /\ ~IssuesInsert
          /\ (draining' => draining)

C3_FlushRemovesHeadBatch == [][C3_FlushStep]_vars

\* A full batch is in flight and the records right behind it are still queued.
C3_Witness ==
    /\ Len(inflight) = 1
    /\ Len(inflight[1]) = batchSize
    /\ queue # <<>>
    /\ queue[1].id = inflight[1][batchSize].id + 1
    /\ queue[1].id \in suppressed

(* C4: when the insert of a flush is rejected its batch is discarded: the   *)
(* queue is left as it was, the failure is logged once, the flag is cleared *)
(* so that later flushes run, and no record of a dropped batch is ever in   *)
(* the queue, in an insert or in the store again.                           *)
C4_RejectStep ==
    Rejects =>
        /\ queue' = queue
        /\ errors' = errors + 1
        /\ draining' = FALSE
        /\ dropped' = dropped \cup {inflight[1][i] : i \in 1..Len(inflight[1])}

C4_DroppedStayOut ==
    DroppedIds \cap (SeqIds(queue) \cup InflightIds \cup StoreIds) = {}

C4_FailedBatchDiscarded == [][C4_RejectStep]_vars /\ []C4_DroppedStayOut

\* After a dropped batch, a record captured later was persisted by a later flush.
C4_Witness ==
    /\ errors > 0
    /\ \E d \in dropped : \E i \in 1..Len(store) : store[i].id > d.id

(* C5: whenever an insert settles, resolved or rejected, the in-flight flag *)
(* is cleared in that step, the flag is never set without an outstanding    *)
(* insert, and the next tick at a non-empty queue starts a flush.           *)
C5_SettleStep ==
    /\ Settles => draining' = FALSE
    /\ (TimerTick /\ ~draining /\ queue # <<>>) => (draining' /\ IssuesInsert)

C5_FlagClearedOnCompletion == [][C5_SettleStep]_vars /\ [](draining => inflight # <<>>)

\* Both a resolved and a rejected insert are behind, the flag is clear, work waits.
C5_Witness ==
    /\ ~draining
    /\ store # <<>>
    /\ errors > 0
    /\ queue # <<>>

(* C6: with the timer ticking and every insert settling, every enqueued     *)
(* record eventually leaves the queue into the store or a dropped batch.    *)
C6_BacklogEventuallyDrained ==
    \A id \in Ids : (id \in SeqIds(queue)) ~> (id \in StoreIds \cup DroppedIds)

\* A record that sat in the queue when a trigger was dropped has been flushed.
C6_Witness ==
    /\ queue = <<>>
    /\ inflight = <<>>
    /\ suppressed \cap (StoreIds \cup DroppedIds) # {}

(* C7: under policy "none" every enqueued record has ip_cidr null and       *)
(* ip_full the client address (null when empty); no record has both fields  *)
(* populated.                                                               *)
C7_NoneLeavesAnonymizedNull ==
    \A r \in QueueRecords :
        /\ optsAnonymizeIp = "none" =>
              /\ r.ip_cidr = Null
              /\ r.ip_full = (IF r.ip = <<>> THEN Null ELSE r.ip)
        /\ ~(r.ip_cidr # Null /\ r.ip_full # Null)

(* C8: for every configured policy other than "none", every enqueued, in    *)
(* flight and persisted record has ip_full null.                            *)
C8_FullIpOnlyUnderNone ==
    optsAnonymizeIp # "none" =>
        \A r \in QueueRecords \cup InflightRecords \cup StoreRecords : r.ip_full = Null

\* A record with a known client address was persisted under the default policy.
C8_Witness ==
    /\ optsAnonymizeIp = "unset"
    /\ \E r \in StoreRecords : r.ip # <<>> /\ r.ip_cidr # Null

----------------------------------------------------------------------------
(* C9: the cidr anonymizer, stated on the positions of the separators.      *)

Positions(s, c) == {i \in 1..Len(s) : s[i] = c}

\* Position of the k-th occurrence of c in s.
NthPosition(s, c, k) ==
    CHOOSE i \in Positions(s, c) : Cardinality({j \in Positions(s, c) : j <= i}) = k

IsDottedQuad(s) == Positions(s, ":") = {} /\ Cardinality(Positions(s, ".")) = 3

\* a.b.c.d -> a.b.c.0
LastOctetZeroed(s) == SubSeq(s, 1, NthPosition(s, ".", 3)) \o <<"0">>

\* the first three colon-separated groups (all of them when fewer), then "::"
FirstThreeGroups(s) ==
    (IF Cardinality(Positions(s, ":")) >= 3
     THEN SubSeq(s, 1, NthPosition(s, ":", 3) - 1)
     ELSE s) \o <<":", ":">>

CidrApplied == anonMode = "cidr"

----------------------------------------------------------------------------
(* C10 as claimed: after every push the queue is the queue before it with   *)
(* the new record appended, so N pushes show all N records in order.        *)
C10_PushStepAsClaimed ==
    Enqueues =>
        \E ip \in ClientIps : queue' = Append(queue, MakeRecord(nextId, ip, StatusOk))

C10_AllPushedPresent == [][C10_PushStepAsClaimed]_vars

(* C10 amended: a push appends the new record behind the queued ones, and   *)
(* the queue then shows them all in push order, as long as the push starts  *)
(* no flush (a flush is in flight, or the queue stays below batchSize); a   *)
(* push that brings the queue to batchSize with no flush in flight moves    *)
(* the first batchSize records of that sequence into an insert at once.     *)
C10_PushStep ==
    Enqueues =>
        \E ip \in ClientIps :
            LET pushed == Append(queue, MakeRecord(nextId, ip, StatusOk))
            IN  IF draining \/ Len(pushed) < batchSize
                THEN queue' = pushed /\ ~IssuesInsert
                ELSE /\ IssuesInsert
                     /\ inflight'[Len(inflight')] \o queue' = pushed
                     /\ Len(queue') = Len(pushed) - Min(Len(pushed), batchSize)

C10_QueueInPushOrder ==
    \A i, j \in 1..Len(queue) : i < j => queue[i].id < queue[j].id

C10_PushKeepsOrder == [][C10_PushStep]_vars /\ []C10_QueueInPushOrder

\* batchSize or more records pushed during a flush are all queued, in order.
C10_Witness ==
    /\ draining
    /\ Len(queue) >= 2
    /\ Len(queue) >= batchSize

----------------------------------------------------------------------------
(* C17: an enqueue that brings the queue to batchSize or more while no      *)
(* flush is in flight starts a flush in that same step: the insert is       *)
(* issued and its batch is out of the queue before any other event runs.    *)
C17_ThresholdStep ==
    (Enqueues /\ ~draining /\ Len(queue) + 1 >= batchSize) =>
        /\ draining'
        /\ Len(inflight') = Len(inflight) + 1
        /\ Len(inflight'[Len(inflight')]) = Min(Len(queue) + 1, batchSize)
        /\ Len(queue') = Len(queue) + 1 - Min(Len(queue) + 1, batchSize)
        /\ SeqIds(inflight'[Len(inflight')]) \cap SeqIds(queue') = {}

C17_ThresholdStartsFlush == [][C17_ThresholdStep]_vars

\* The first batchSize pushes went out as one batch with no tick in between.
C17_Witness ==
    /\ batchSize >= 2
    /\ Len(inflight) = 1
    /\ SeqIds(inflight[1]) = 1..batchSize
    /\ queue = <<>>
    /\ nextId = batchSize + 1

(* C18: a flush touches only the batch it removed: a record enqueued while  *)
(* it is in flight goes to the queue and not into the batch, and when the   *)
(* insert settles the queue is untouched and exactly the batch is persisted *)
(* or, on failure, lost.                                                    *)
C18_Step ==
    /\ (Enqueues /\ draining) =>
          /\ inflight' = inflight
          /\ Len(queue') = Len(queue) + 1
          /\ SubSeq(queue', 1, Len(queue)) = queue
          /\ queue'[Len(queue')].id = nextId
          /\ store' = store /\ dropped' = dropped
    /\ Settles =>
          /\ queue' = queue
          /\ \/ store' = store \o inflight[1] /\ dropped' = dropped
             \/ store' = store
                  /\ dropped' = dropped \cup {inflight[1][i] : i \in 1..Len(inflight[1])}

C18_FlushTouchesOnlyItsBatch ==
    [][C18_Step]_vars /\ [](InflightIds \cap SeqIds(queue) = {})

\* Every flush so far failed, and a record that waited during one is still queued.
C18_Witness ==
    /\ inflight = <<>>
    /\ store = <<>>
    /\ dropped # {}
    /\ queue # <<>>
    /\ queue[1].id \in suppressed

(* C19: a trigger that arrives while a flush is in flight removes nothing,  *)
(* issues nothing and leaves the flag set; it is not remembered: the step   *)
(* in which the insert settles starts no flush and leaves the queue alone.  *)
C19_Step ==
    /\ (draining /\ ~Settles) =>
          /\ draining'
          /\ inflight' = inflight
          /\ store' = store /\ dropped' = dropped
          /\ SubSeq(queue', 1, Len(queue)) = queue
    /\ Settles =>
          /\ queue' = queue
          /\ ~draining'
          /\ inflight' = Tail(inflight)

C19_SuppressedTriggerDropped == [][C19_Step]_vars

\* A trigger was dropped, the flush is over, and its records still wait.
C19_Witness ==
    /\ ~draining
    /\ inflight = <<>>
    /\ Len(queue) >= batchSize
    /\ suppressed \cap SeqIds(queue) # {}

(* C20: rows are persisted in capture order: the ids in every insert and in *)
(* the store increase, so the store is a subsequence of the enqueue         *)
(* sequence, with gaps only where a batch was dropped.                      *)
Increasing(q) == \A i, j \in 1..Len(q) : i < j => q[i].id < q[j].id

C20_PersistedInCaptureOrder ==
    /\ Increasing(store)
    /\ \A b \in 1..Len(inflight) :
          /\ Increasing(inflight[b])
          /\ \A i \in 1..Len(store), j \in 1..Len(inflight[b]) :
                store[i].id < inflight[b][j].id
    /\ \A id \in Ids :
          (id \notin StoreIds /\ \E i, j \in 1..Len(store) : store[i].id < id /\ id < store[j].id)
              => id \in DroppedIds

\* A dropped batch lies between two persisted ones.
C20_Witness ==
    \E d \in dropped : \E i, j \in 1..Len(store) : store[i].id < d.id /\ d.id < store[j].id

----------------------------------------------------------------------------
(* C12: stop halts the flush timer: once stop has completed, no tick or     *)
(* push starts a flush and no insert is issued to the store any more.       *)
C12_StoppedStep == poolEnded => (~IssuesInsert /\ (draining' => draining))

C12_NoInsertAfterStop == [][C12_StoppedStep]_vars

(* C13: no batch insert is issued while the schema statement of startup is  *)
(* still out; and once that statement has failed, every insert that settles *)
(* is rejected and its batch dropped.                                       *)
C13_SchemaStep ==
    /\ IssuesInsert => schema # "pending"
    /\ (schema = "failed" /\ Settles) => Rejects

C13_TableEnsuredBeforeUse == [][C13_SchemaStep]_vars

----------------------------------------------------------------------------
(* C14: a failure at capture time stays out of the host's request path: it  *)
(* is contained and logged, nothing is enqueued, the queue and the flusher  *)
(* are as before, and the middleware has called next() exactly once.        *)
C14_CaptureStep ==
    /\ (reqPhase = "passed" /\ reqPhase' = "idle" /\ lastFinish' = "caught") =>
          /\ errors' = errors + 1
          /\ UNCHANGED <<queue, draining, inflight, nextId>>
          /\ nextCalls' = 1
    /\ (reqPhase = "idle" /\ reqPhase' = "passed") => nextCalls' = 1

C14_CaptureFailureContainedAndLogged == [][C14_CaptureStep]_vars

----------------------------------------------------------------------------
(* C11: the traffic query reaches the store only with a bucket out of the   *)
(* fixed set of granularities and a window out of the allowlist; any other  *)
(* caller value was rejected or replaced before.                            *)
BucketAllowlist == {"hour", "day"}
WindowAllowlist == {"1 hour", "24 hours"}

C11_TrafficArgsValidated ==
    dashEndpoint = "traffic" =>
        /\ dashArgs.bucket \in BucketAllowlist
        /\ dashArgs.window \in WindowAllowlist

(* C15: when a store query of a dashboard request fails, the request gets   *)
(* exactly one response, HTTP 500 with an error field, whichever of the     *)
(* five endpoints it is; the failure leaves queue and flusher as they were. *)
SomeQueryFailed == \E i \in 1..Len(dashQ) : dashQ[i].state = "failed"
QueryFails == \E i \in 1..Len(dashQ) : dashQ[i].state = "pending" /\ dashQ'[i].state = "failed"

C15_FailStep ==
    QueryFails =>
        /\ UNCHANGED <<queue, draining, inflight, store, dropped, errors, nextId>>
        /\ dashSent' = 1
        /\ dashResp'.code = 500
        /\ DOMAIN dashResp'.body = {"error"}

C15_QueryFailureAnswered ==
    /\ [][C15_FailStep]_vars
    /\ [](dashSent <= 1)
    /\ [](SomeQueryFailed => (dashSent = 1 /\ dashResp.code = 500))

\* The summary lost two of its three queries and answered once, with the error.
C15_Witness ==
    /\ dashEndpoint = "summary"
    /\ Cardinality({i \in 1..Len(dashQ) : dashQ[i].state = "failed"}) = 2
    /\ dashQ[1].state = "ok"
    /\ dashSent = 1
    /\ dashResp.code = 500

(* C16: a resolved insert puts each record of its batch into the store      *)
(* once, and the summary's status distribution is, for the store it reads,  *)
(* one row per distinct status with the number of its persisted records,    *)
(* rows in order of descending count.                                       *)
StatusesQueryResolves ==
    /\ dashEndpoint = "summary"
    /\ dashQ[2].state = "pending"
    /\ dashQ'[2].state = "ok"

C16_Step ==
    /\ (Settles /\ ~Rejects) =>
          /\ store' = store \o inflight[1]
          /\ \A k \in 1..Len(inflight[1]) : CountIn(store', inflight[1][k].id) = 1
    /\ StatusesQueryResolves =>
          LET rows == dashQ'[2].rows
              persisted(st) == Cardinality({r \in StoreRecords : r.status = st})
          IN  /\ \A st \in Statuses :
                    Cardinality({i \in 1..Len(rows) : rows[i].status = st})
                        = (IF persisted(st) > 0 THEN 1 ELSE 0)
              /\ \A i \in 1..Len(rows) : rows[i].c = persisted(rows[i].status)
              /\ \A i, j \in 1..Len(rows) : i < j => rows[i].c >= rows[j].c
    /\ (dashEndpoint = "summary" /\ dashSent' = dashSent + 1 /\ dashResp'.code = 200) =>
          /\ dashResp'.body.statuses = dashQ'[2].rows
          /\ dashResp'.body.total_30d = dashQ'[1].rows[1].count

C16_FlushVisibleToSummary == [][C16_Step]_vars

\* Records with statuses 200, 200 and 500 are persisted and the summary says so.
C16_Witness ==
    /\ Len(store) = 3
    /\ dashEndpoint = "summary"
    /\ dashResp.code = 200
    /\ dashResp.body.statuses = <<[status |-> 200, c |-> 2], [status |-> 500, c |-> 1]>>
    /\ dashResp.body.total_30d = 3

====
